---- MODULE Spec2Model ----
(***************************************************************************)
(* Bike rental dashboard (src/dashboard/dashboard.py, plotly backend, and  *)
(* src/dashboard.py, matplotlib backend).  A Streamlit script: every user  *)
(* interaction re-executes the script top to bottom.  One run is           *)
(*   load_data -> sidebar widgets -> filter -> tab1 .. tab5 -> summary,    *)
(* synchronous and single-threaded, stopped by the first exception.  The   *)
(* run is one action; ns.events keeps the order of what it did.            *)
(* Floating point results (means, growth) are kept as exact rationals      *)
(* [num, den] in lowest terms, or as the IEEE markers "inf" / "nan".       *)
(* Dates are day numbers; temperatures are integers in slider steps.       *)
(***************************************************************************)
EXTENDS Integers, Sequences, FiniteSets, TLC

\* ------------------------------------------------------------------ bounds
MaxRows == 3
MaxRuns == 2

\* ------------------------------------------------------- input universe
\* Per-day columns of main_data.csv (dteday determines them in the data set).
DayProfiles ==
    << [yr |-> 0, mnth |-> 12, season |-> 4, weekday |-> 6, workingday |-> 0],
       [yr |-> 1, mnth |-> 1,  season |-> 1, weekday |-> 0, workingday |-> 1] >>

\* Per-hour columns; cnt = casual + registered.
HourProfiles ==
    << [hr |-> 8,  weathersit |-> 1, temp |-> 3, casual |-> 0, registered |-> 0],
       [hr |-> 8,  weathersit |-> 1, temp |-> 3, casual |-> 1, registered |-> 2],
       [hr |-> 17, weathersit |-> 3, temp |-> 1, casual |-> 2, registered |-> 2] >>

MakeRow(i, d, h) ==
    [ instant    |-> i,
      dteday     |-> d,
      season     |-> DayProfiles[d].season,
      yr         |-> DayProfiles[d].yr,
      mnth       |-> DayProfiles[d].mnth,
      hr         |-> HourProfiles[h].hr,
      weekday    |-> DayProfiles[d].weekday,
      workingday |-> DayProfiles[d].workingday,
      weathersit |-> HourProfiles[h].weathersit,
      temp       |-> HourProfiles[h].temp,
      casual     |-> HourProfiles[h].casual,
      registered |-> HourProfiles[h].registered,
      cnt        |-> HourProfiles[h].casual + HourProfiles[h].registered ]

Choices == (DOMAIN DayProfiles) \X (DOMAIN HourProfiles)

\* The contents main_data.csv can have: 1..MaxRows rows in any order.
Datasets ==
    UNION { { [i \in 1..n |-> MakeRow(i, f[i][1], f[i][2])] :
                f \in [1..n -> Choices] } : n \in 1..MaxRows }

\* --------------------------------------------------------- pandas helpers
RECURSIVE GCD(_, _)
GCD(a, b) == IF b = 0 THEN a ELSE GCD(b, a % b)

Abs(x) == IF x < 0 THEN -x ELSE x

\* The float n / d with d > 0, kept exact.
Rat(n, d) ==
    LET g == GCD(Abs(n), d)
    IN  [num |-> n \div g, den |-> d \div g]

RatLess(a, b) == a.num * b.den < b.num * a.den

RECURSIVE SumCol(_, _)
SumCol(rows, col) ==
    IF rows = <<>> THEN 0 ELSE Head(rows)[col] + SumCol(Tail(rows), col)

RECURSIVE MaxCol(_, _)
MaxCol(rows, col) ==
    IF Len(rows) = 1 THEN Head(rows)[col]
    ELSE LET m == MaxCol(Tail(rows), col)
         IN  IF Head(rows)[col] > m THEN Head(rows)[col] ELSE m

RECURSIVE MinCol(_, _)
MinCol(rows, col) ==
    IF Len(rows) = 1 THEN Head(rows)[col]
    ELSE LET m == MinCol(Tail(rows), col)
         IN  IF Head(rows)[col] < m THEN Head(rows)[col] ELSE m

MeanCol(rows, col) == Rat(SumCol(rows, col), Len(rows))

RECURSIVE SortedSeq(_)
SortedSeq(S) ==
    IF S = {} THEN <<>>
    ELSE LET m == CHOOSE x \in S : \A y \in S : x <= y
         IN  <<m>> \o SortedSeq(S \ {m})

RECURSIVE FirstSeen(_, _)
FirstSeen(rows, col) ==
    IF rows = <<>> THEN <<>>
    ELSE LET k == Head(rows)[col]
         IN  <<k>> \o FirstSeen(SelectSeq(Tail(rows), LAMBDA r : r[col] # k), col)

\* Group keys in first-appearance order (groupby(sort=False)).
GroupKeysUnsorted(df, col) == FirstSeen(df, col)

\* df.groupby(col): the group keys, sorted ascending (sort=True is the default).
GroupKeys(df, col) == SortedSeq({ df[i][col] : i \in DOMAIN df })

Group(df, col, k) == SelectSeq(df, LAMBDA r : r[col] = k)


\* ------------------------------------------------------------------ state
VARIABLES
    backend,      \* which of the two scripts this process runs
    source,       \* rows of main_data.csv
    cache,        \* st.cache_data entry of load_data()
    reads,        \* number of pd.read_csv executions
    cacheWrites,  \* number of writes to the cache entry
    loads,        \* object identity returned by each load_data() call
    widgets,      \* session state of the sidebar widgets
    ns,           \* the script's variables at the end of the latest run
    run           \* number of script runs so far

vars == <<backend, source, cache, reads, cacheWrites, loads, widgets, ns, run>>

season_map  == 1..4
weather_map == 1..4
WorkingDayOptions == {"All", "Working Day", "Holiday/Weekend"}

NoInsights == [k \in {} |-> 0]
NoGrowth   == [kind |-> "unset"]

\* A fresh namespace of the running script, holding the loaded frame.
Namespace(df) ==
    [ script           |-> backend,
      main_data_df     |-> df,
      date_filtered_df |-> <<>>,
      hourly_trend     |-> <<>>,
      daily_trend      |-> <<>>,
      daily_user_trend |-> <<>>,
      monthly_trend    |-> <<>>,
      yearly_trend     |-> <<>>,
      yoy_growth       |-> NoGrowth,
      rfm_df           |-> <<>>,
      insights         |-> NoInsights,
      events           |-> <<>>,
      error            |-> "none" ]

Init ==
    /\ backend \in {"plotly", "matplotlib"}
    /\ source \in Datasets
    /\ cache = [filled |-> FALSE, rows |-> <<>>]
    /\ reads = 0
    /\ cacheWrites = 0
    /\ loads = <<>>
    /\ widgets = [ set |-> FALSE, start_date |-> 0, end_date |-> 0,
                   selected_season |-> {}, selected_weather |-> {},
                   workingday |-> "All", temp_range |-> <<0, 0>> ]
    /\ ns = Namespace([obj |-> 0, rows |-> <<>>])
    /\ run = 0

\* ------------------------------------------------------------ load_data()
CacheNeverHit(c) == FALSE

\* @st.cache_data: the body runs only when the entry is missing.
CacheHit(c) == c.filled

\* What load_data() returns: on a miss the frame pd.read_csv built, on a hit a
\* frame unpickled from the entry.  Either way it is a new object.
LoadResult == [obj  |-> Len(loads) + 1,
               rows |-> IF CacheHit(cache) THEN cache.rows ELSE source]

\* main_data_df = load_data(): the effect on the cache and the source.
LoadData ==
    /\ loads' = Append(loads, LoadResult.obj)
    /\ IF CacheHit(cache)
       THEN UNCHANGED <<cache, reads, cacheWrites>>
       ELSE /\ reads' = reads + 1
            /\ cache' = [filled |-> TRUE, rows |-> source]
            /\ cacheWrites' = cacheWrites + 1

\* ---------------------------------------------------------------- sidebar
min_date(df) == MinCol(df.rows, "dteday")
max_date(df) == MaxCol(df.rows, "dteday")
min_temp(df) == MinCol(df.rows, "temp")
max_temp(df) == MaxCol(df.rows, "temp")

\* The default value of every widget.
Defaults(df) ==
    [ set              |-> TRUE,
      start_date       |-> min_date(df),
      end_date         |-> max_date(df),
      selected_season  |-> season_map,
      selected_weather |-> weather_map,
      workingday       |-> "All",
      temp_range       |-> <<min_temp(df), max_temp(df)>> ]

\* with st.sidebar: on the first run every widget returns its default; on a
\* rerun it returns the value the session holds.
Sidebar(df, w) == IF w.set THEN w ELSE Defaults(df)

\* ----------------------------------------------------------------- filter
BetweenExclusive(x, lo, hi) == lo < x /\ x < hi

\* Series.between(lo, hi), inclusive="both".
Between(x, lo, hi) == lo <= x /\ x <= hi

\* The boolean mask of the first indexing: four predicates joined by &.
Mask(r, w) ==
    /\ r.dteday >= w.start_date
    /\ r.dteday <= w.end_date
    /\ r.season \in w.selected_season
    /\ r.weathersit \in w.selected_weather
    /\ Between(r.temp, w.temp_range[1], w.temp_range[2])

WorkingDayCodeAlwaysOne(wd) == 1

WorkingDayCode(wd) == IF wd = "Working Day" THEN 1 ELSE 0

FilterData(n, w) ==
    LET step1 == SelectSeq(n.main_data_df.rows, LAMBDA r : Mask(r, w))
        step2 == IF w.workingday # "All"
                 THEN SelectSeq(step1,
                                LAMBDA r : r.workingday = WorkingDayCode(w.workingday))
                 ELSE step1
    IN  [n EXCEPT !.date_filtered_df = step2,
                  !.events = Append(@, [op |-> "filter", view |-> "all"])]

\* ------------------------------------------------------------------ views
\* df.groupby(col)[vcol].mean().reset_index(): one row per key, keys ascending.
GroupMean(df, col, vcol) ==
    LET keys == GroupKeys(df, col)
    IN  [i \in 1..Len(keys) |->
           (col :> keys[i]) @@ (vcol :> MeanCol(Group(df, col, keys[i]), vcol))]

\* df.groupby('weekday')[['casual', 'registered']].mean().reset_index()
GroupMean2(df, col) ==
    LET keys == GroupKeys(df, col)
    IN  [i \in 1..Len(keys) |->
           [weekday    |-> keys[i],
            casual     |-> MeanCol(Group(df, col, keys[i]), "casual"),
            registered |-> MeanCol(Group(df, col, keys[i]), "registered")]]

\* Series.idxmax() / idxmin() of a non-empty float column: the first row
\* holding the extreme value.
IdxMax(t, col) ==
    CHOOSE i \in DOMAIN t :
        /\ \A j \in DOMAIN t : ~RatLess(t[i][col], t[j][col])
        /\ \A j \in 1..(i - 1) : RatLess(t[j][col], t[i][col])

IdxMin(t, col) ==
    CHOOSE i \in DOMAIN t :
        /\ \A j \in DOMAIN t : ~RatLess(t[j][col], t[i][col])
        /\ \A j \in 1..(i - 1) : RatLess(t[i][col], t[j][col])

\* The "Key Insights" rows of the plotly script.
PeakLow(t, col, name) ==
    (("peak_" \o name) :> t[IdxMax(t, col)]) @@ (("low_" \o name) :> t[IdxMin(t, col)])

yr_map == [k \in {0, 1} |-> IF k = 0 THEN "2011" ELSE "2012"]

\* groupby('yr')['cnt'].agg(['mean', 'sum']).reset_index(), yr mapped to a label.
YearlyTrend(df) ==
    LET keys == GroupKeys(df, "yr")
    IN  [i \in 1..Len(keys) |->
           [yr   |-> yr_map[keys[i]],
            mean |-> MeanCol(Group(df, "yr", keys[i]), "cnt"),
            sum  |-> SumCol(Group(df, "yr", keys[i]), "cnt")]]

\* (sum.iloc[1] - sum.iloc[0]) / sum.iloc[0] * 100 on numpy scalars: a zero
\* divisor gives inf, -inf or nan (with a warning), not an exception.
YoyGrowth(yt) ==
    LET s1 == yt[2].sum
        s0 == yt[1].sum
    IN  IF s0 = 0
        THEN [kind |-> IF s1 - s0 > 0 THEN "inf"
                       ELSE IF s1 - s0 < 0 THEN "-inf" ELSE "nan"]
        ELSE [kind |-> "finite", val |-> Rat((s1 - s0) * 100, s0)]

LastDateEarliest(df) == MinCol(df, "dteday")

\* last_date = date_filtered_df['dteday'].max()
LastDate(df) == MaxCol(df, "dteday")

\* groupby('registered').agg({dteday: recency, instant: count, cnt: sum}),
\* columns renamed.
RfmDf(df) ==
    LET keys == GroupKeys(df, "registered")
        last_date == LastDate(df)
    IN  [i \in 1..Len(keys) |->
           LET g == Group(df, "registered", keys[i])
           IN  [customer_id   |-> keys[i],
                recency       |-> last_date - MaxCol(g, "dteday"),
                frequency     |-> Len(g),
                total_rentals |-> SumCol(g, "cnt")]]

Ev(op, view) == [op |-> op, view |-> view]

RenderThenCompute(view) == <<Ev("render", view), Ev("compute", view)>>

\* Inside a tab: the view is computed, then handed to the chart call.
ComputeThenRender(view) == <<Ev("compute", view), Ev("render", view)>>

\* ------------------------------------------------------------------- tabs
\* Each block runs only if no earlier statement raised.  In the plotly script
\* idxmax / idxmin raise ValueError on an empty column, after the chart.  The
\* chart calls themselves are taken not to raise.
Tab1(n) ==
    IF n.error # "none" THEN n
    ELSE LET t == GroupMean(n.date_filtered_df, "hr", "cnt")
             raises == n.script = "plotly" /\ t = <<>>
         IN  [n EXCEPT !.hourly_trend = t,
                       !.events = @ \o ComputeThenRender("hourly"),
                       !.insights = IF n.script = "plotly" /\ ~raises
                                    THEN @ @@ PeakLow(t, "cnt", "hour") ELSE @,
                       !.error = IF raises THEN "ValueError" ELSE "none"]

\* plotly: chart, second grouping, chart; matplotlib: both groupings are drawn
\* on one figure that st.pyplot shows at the end.
Tab2Events(script) ==
    IF script = "plotly"
    THEN ComputeThenRender("daily") \o ComputeThenRender("daily_user")
    ELSE <<Ev("compute", "daily"), Ev("compute", "daily_user"),
           Ev("render", "daily"), Ev("render", "daily_user")>>

Tab2(n) ==
    IF n.error # "none" THEN n
    ELSE LET t == GroupMean(n.date_filtered_df, "weekday", "cnt")
             raises == n.script = "plotly" /\ t = <<>>
         IN  [n EXCEPT !.daily_trend = t,
                       !.daily_user_trend = GroupMean2(n.date_filtered_df, "weekday"),
                       !.events = @ \o Tab2Events(n.script),
                       !.insights = IF n.script = "plotly" /\ ~raises
                                    THEN @ @@ PeakLow(t, "cnt", "day") ELSE @,
                       !.error = IF raises THEN "ValueError" ELSE "none"]

Tab3(n) ==
    IF n.error # "none" THEN n
    ELSE LET t == GroupMean(n.date_filtered_df, "mnth", "cnt")
             raises == n.script = "plotly" /\ t = <<>>
         IN  [n EXCEPT !.monthly_trend = t,
                       !.events = @ \o ComputeThenRender("monthly"),
                       !.insights = IF n.script = "plotly" /\ ~raises
                                    THEN @ @@ PeakLow(t, "cnt", "month") ELSE @,
                       !.error = IF raises THEN "ValueError" ELSE "none"]

\* The yearly block with the matplotlib script alone guarding a short grouping.
Tab4GuardedInOne(n) ==
    IF n.error # "none" THEN n
    ELSE LET t == YearlyTrend(n.date_filtered_df)
         IN  IF Len(t) < 2 /\ n.script = "plotly"
             THEN [n EXCEPT !.yearly_trend = t,
                            !.events = Append(@, Ev("compute", "yearly")),
                            !.error = "IndexError"]
             ELSE [n EXCEPT !.yearly_trend = t,
                            !.yoy_growth = IF Len(t) < 2 THEN [kind |-> "nan"]
                                           ELSE YoyGrowth(t),
                            !.events = @ \o ComputeThenRender("yearly")
                                         \o <<Ev("render", "yearly")>>]

\* yoy_growth is computed before either chart; .iloc[1] raises IndexError when
\* the grouping has fewer than two rows.
Tab4(n) ==
    IF n.error # "none" THEN n
    ELSE LET t == YearlyTrend(n.date_filtered_df)
         IN  IF Len(t) < 2
             THEN [n EXCEPT !.yearly_trend = t,
                            !.events = Append(@, Ev("compute", "yearly")),
                            !.error = "IndexError"]
             ELSE [n EXCEPT !.yearly_trend = t,
                            !.yoy_growth = YoyGrowth(t),
                            !.events = @ \o ComputeThenRender("yearly")
                                         \o <<Ev("render", "yearly")>>]

Tab5(n) ==
    IF n.error # "none" THEN n
    ELSE LET t == RfmDf(n.date_filtered_df)
         IN  [n EXCEPT !.rfm_df = t,
                       !.events = @ \o ComputeThenRender("customer"),
                       !.insights =
                           IF n.script = "plotly"
                           THEN @ @@ ("avg_recency" :> MeanCol(t, "recency"))
                                  @@ ("avg_frequency" :> MeanCol(t, "frequency"))
                           ELSE @]

\* ------------------------------------------------------------ script runs
\* One execution of the script with the session's widget state w.
Execute(w) ==
    /\ run < MaxRuns
    /\ LoadData
    /\ LET df == LoadResult
           w1 == Sidebar(df, w)
       IN  /\ widgets' = w1
           /\ ns' = Tab5(Tab4(Tab3(Tab2(Tab1(FilterData(Namespace(df), w1))))))
    /\ run' = run + 1
    /\ UNCHANGED <<backend, source>>

\* Opening the page.
FirstRun ==
    /\ run = 0
    /\ Execute(widgets)

\* The user changes one widget; Streamlit reruns the script from the top.
ChangeStartDate ==
    /\ run >= 1
    /\ \E d \in (min_date(ns.main_data_df)..max_date(ns.main_data_df)) \ {widgets.start_date} :
          Execute([widgets EXCEPT !.start_date = d])

ChangeEndDate ==
    /\ run >= 1
    /\ \E d \in (min_date(ns.main_data_df)..max_date(ns.main_data_df)) \ {widgets.end_date} :
          Execute([widgets EXCEPT !.end_date = d])

\* A multiselect: drop one option, add one option, or clear all.
MultiselectChanges(sel, options) ==
    ({ sel \ {x} : x \in sel } \cup { sel \cup {x} : x \in options \ sel } \cup { {} })
        \ {sel}

ChangeSeason ==
    /\ run >= 1
    /\ \E sel \in MultiselectChanges(widgets.selected_season, season_map) :
          Execute([widgets EXCEPT !.selected_season = sel])

ChangeWeather ==
    /\ run >= 1
    /\ \E sel \in MultiselectChanges(widgets.selected_weather, weather_map) :
          Execute([widgets EXCEPT !.selected_weather = sel])

ChangeWorkingDay ==
    /\ run >= 1
    /\ \E wd \in WorkingDayOptions \ {widgets.workingday} :
          Execute([widgets EXCEPT !.workingday = wd])

\* A range slider: one handle moves, the low one never past the high one.
ChangeTempLow ==
    /\ run >= 1
    /\ \E lo \in (min_temp(ns.main_data_df)..widgets.temp_range[2]) \ {widgets.temp_range[1]} :
          Execute([widgets EXCEPT !.temp_range = <<lo, @[2]>>])

ChangeTempHigh ==
    /\ run >= 1
    /\ \E hi \in (widgets.temp_range[1]..max_temp(ns.main_data_df)) \ {widgets.temp_range[2]} :
          Execute([widgets EXCEPT !.temp_range = <<@[1], hi>>])

Next ==
    \/ FirstRun
    \/ ChangeStartDate
    \/ ChangeEndDate
    \/ ChangeSeason
    \/ ChangeWeather
    \/ ChangeWorkingDay
    \/ ChangeTempLow
    \/ ChangeTempHigh

Spec == Init /\ [][Next]_vars

\* ----------------------------------------------------------------- claims
\* Vocabulary of the claims, stated over sets of row positions rather than by
\* the scans above.
Rows     == ns.main_data_df.rows
Filtered == ns.date_filtered_df
Did(op, view) == \E i \in DOMAIN ns.events : ns.events[i] = Ev(op, view)

Where(df, col, k) == { i \in DOMAIN df : df[i][col] = k }

RECURSIVE SumOver(_, _, _)
SumOver(df, I, col) ==
    IF I = {} THEN 0
    ELSE LET i == CHOOSE x \in I : TRUE
         IN  df[i][col] + SumOver(df, I \ {i}, col)

Latest(df, I) == CHOOSE d \in { df[i].dteday : i \in I } :
                    \A i \in I : df[i].dteday <= d

\* v is the float sum / count.
IsMean(v, sum, count) == v.num * count = v.den * sum

\* The five predicates of FilterCriteria, as one conjunction.
SatisfiesAll(r, w) ==
    /\ w.start_date <= r.dteday /\ r.dteday <= w.end_date
    /\ r.season \in w.selected_season
    /\ r.weathersit \in w.selected_weather
    /\ w.temp_range[1] <= r.temp /\ r.temp <= w.temp_range[2]
    /\ \/ w.workingday = "All"
       \/ w.workingday = "Working Day" /\ r.workingday = 1
       \/ w.workingday = "Holiday/Weekend" /\ r.workingday = 0

\* C1: after every run the filtered subset holds a record of the dataset if
\* and only if the record satisfies all five predicates at once, and holds
\* nothing else.
C1_FilterIsConjunction ==
    run >= 1 =>
        /\ \A i \in DOMAIN Rows :
              (\E j \in DOMAIN Filtered : Filtered[j] = Rows[i])
                  <=> SatisfiesAll(Rows[i], widgets)
        /\ \A j \in DOMAIN Filtered : \E i \in DOMAIN Rows : Rows[i] = Filtered[j]

\* A run in which the working-day step alone dropped a record and kept another.
C1_Witness ==
    /\ run >= 2
    /\ widgets.workingday = "Holiday/Weekend"
    /\ Filtered # <<>>
    /\ \E i \in DOMAIN Rows : Mask(Rows[i], widgets) /\ Rows[i].workingday = 1

\* C2: whenever the filtered subset is empty the run completes without an
\* exception.
C2_EmptySubsetCompletes ==
    (run >= 1 /\ Filtered = <<>>) => ns.error = "none"

\* C3: when both years are grouped and the first year's sum is 0, the growth is
\* the NaN marker and nothing is raised.
C3_ZeroFirstYearIsNaN ==
    (run >= 1 /\ Len(ns.yearly_trend) = 2 /\ ns.yearly_trend[1].sum = 0)
        => (ns.error = "none" /\ ns.yoy_growth.kind = "nan")

\* C4: for every filtered subset that reaches the yearly view, with a non-zero
\* total for year_flag 0, the growth is (sum1 - sum0) / sum0 * 100 where sum0
\* and sum1 are the totals of year_flag 0 and 1, also when one year has no
\* record.
C4_GrowthByYearFlag ==
    LET sum0 == SumOver(Filtered, Where(Filtered, "yr", 0), "cnt")
        sum1 == SumOver(Filtered, Where(Filtered, "yr", 1), "cnt")
    IN  (run >= 1 /\ Did("compute", "yearly") /\ sum0 # 0) =>
            /\ ns.yoy_growth.kind = "finite"
            /\ ns.yoy_growth.val.num * sum0 = ns.yoy_growth.val.den * (sum1 - sum0) * 100

\* C5: for a filtered subset of exactly one record the run completes, every
\* view has a single group whose mean is the record's cnt, and the customer
\* view is one row with recency 0, frequency 1 and monetary cnt.
C5_SingleRecordCompletes ==
    (run >= 1 /\ Len(Filtered) = 1) =>
        LET r == Filtered[1]
        IN  /\ ns.error = "none"
            /\ Len(ns.hourly_trend) = 1 /\ IsMean(ns.hourly_trend[1].cnt, r.cnt, 1)
            /\ Len(ns.daily_trend) = 1 /\ IsMean(ns.daily_trend[1].cnt, r.cnt, 1)
            /\ Len(ns.monthly_trend) = 1 /\ IsMean(ns.monthly_trend[1].cnt, r.cnt, 1)
            /\ Len(ns.yearly_trend) = 1
            /\ ns.rfm_df = << [customer_id |-> r.registered, recency |-> 0,
                               frequency |-> 1, total_rentals |-> r.cnt] >>

\* C6: whenever a run computes the monthly view, it has one row per distinct
\* month of the filtered subset, each holding the mean cnt of that month, in
\* ascending calendar month order whatever the row order of the input.
C6_MonthlyOrdered ==
    Did("compute", "monthly") =>
        LET t == ns.monthly_trend
        IN  /\ { t[i].mnth : i \in DOMAIN t } = { Filtered[i].mnth : i \in DOMAIN Filtered }
            /\ \A i \in DOMAIN t : \A j \in DOMAIN t : i < j => t[i].mnth < t[j].mnth
            /\ \A i \in DOMAIN t :
                  LET I == Where(Filtered, "mnth", t[i].mnth)
                  IN  IsMean(t[i].cnt, SumOver(Filtered, I, "cnt"), Cardinality(I))

\* Two months whose rows arrive in descending month order, one month holding
\* two records.
C6_Witness ==
    /\ Len(ns.monthly_trend) = 2
    /\ Len(Filtered) = 3
    /\ Filtered[1].mnth > Filtered[2].mnth

\* C7 as stated: the source is read at most once, the cache is written at most
\* once, and every load_data() call returns the same object.
C7_SameInstance ==
    /\ reads <= 1
    /\ cacheWrites <= 1
    /\ \A i \in DOMAIN loads : loads[i] = loads[1]

\* C7 amended: the source is read at most once, the cache is written at most
\* once, and every load_data() call returns a frame with the rows of the
\* source (each call its own copy).
C7_ReadOnce ==
    /\ reads <= 1
    /\ cacheWrites <= 1
    /\ run >= 1 => (reads = 1 /\ cacheWrites = 1 /\ Rows = source /\ cache.rows = source)
    /\ Len(loads) = run

\* A rerun served from the cache.
C7_Witness == run >= 2 /\ Len(loads) >= 2 /\ reads = 1 /\ Rows = source

IsFullRange(w) ==
    /\ \A i \in DOMAIN Rows : w.start_date <= Rows[i].dteday /\ Rows[i].dteday <= w.end_date
    /\ \E i \in DOMAIN Rows : w.start_date = Rows[i].dteday
    /\ \E i \in DOMAIN Rows : w.end_date = Rows[i].dteday
    /\ w.selected_season = {1, 2, 3, 4}
    /\ w.selected_weather = {1, 2, 3, 4}
    /\ \A i \in DOMAIN Rows : w.temp_range[1] <= Rows[i].temp /\ Rows[i].temp <= w.temp_range[2]
    /\ \E i \in DOMAIN Rows : w.temp_range[1] = Rows[i].temp
    /\ \E i \in DOMAIN Rows : w.temp_range[2] = Rows[i].temp
    /\ w.workingday = "All"

\* C9: with the default widget values the filter returns the dataset
\* unchanged, every record in its place.
C9_IdentityOnDefaults ==
    (run >= 1 /\ IsFullRange(widgets)) => Filtered = source

\* The first run over a dataset whose rows differ in date and temperature.
C9_Witness ==
    /\ run = 1
    /\ IsFullRange(widgets)
    /\ Len(Filtered) >= 2
    /\ Filtered[1].dteday # Filtered[2].dteday
    /\ Filtered[1].temp # Filtered[2].temp

FiveViews == {"hourly", "daily", "monthly", "yearly", "customer"}

Before(e, i) == \E j \in 1..(i - 1) : ns.events[j] = e

\* C10 as stated: no chart is rendered in a run before all five views of that
\* run have been computed.
C10_AllViewsBeforeRender ==
    \A i \in DOMAIN ns.events :
        ns.events[i].op = "render" =>
            \A v \in FiveViews : Before(Ev("compute", v), i)

\* C10 amended: each interaction triggers exactly one run; in it the filter
\* comes first and once, every view is computed at most once, a chart is
\* rendered only after its own view has been computed, and the loaded dataset
\* keeps the rows of the source.
C10_ViewBeforeItsChart ==
    run >= 1 =>
        /\ Len(loads) = run
        /\ ns.events[1] = Ev("filter", "all")
        /\ \A i \in DOMAIN ns.events : i > 1 => ns.events[i].op # "filter"
        /\ \A i \in DOMAIN ns.events : \A j \in DOMAIN ns.events :
              (i # j /\ ns.events[i].op = "compute") => ns.events[i] # ns.events[j]
        /\ \A i \in DOMAIN ns.events :
              ns.events[i].op = "render" => Before(Ev("compute", ns.events[i].view), i)
        /\ Rows = source

\* A rerun that rendered all five tabs.
C10_Witness ==
    /\ run >= 2
    /\ ns.error = "none"
    /\ \A v \in FiveViews : Did("render", v)

\* What the other script leaves when it runs on the same frame with the same
\* widget state.
OtherScript == IF ns.script = "plotly" THEN "matplotlib" ELSE "plotly"

Twin ==
    Tab5(Tab4(Tab3(Tab2(Tab1(
        FilterData([Namespace(ns.main_data_df) EXCEPT !.script = OtherScript],
                   widgets))))))

DidIn(n, op, view) == \E i \in DOMAIN n.events : n.events[i] = Ev(op, view)

Table(n, view) ==
    CASE view = "hourly"   -> <<n.hourly_trend>>
      [] view = "daily"    -> <<n.daily_trend, n.daily_user_trend>>
      [] view = "monthly"  -> <<n.monthly_trend>>
      [] view = "yearly"   -> <<n.yearly_trend, n.yoy_growth>>
      [] view = "customer" -> <<n.rfm_df>>

====
